---- MODULE Spec2Model ----
(***************************************************************************)
(* Task dispatch and SLA enforcement of the job-application management     *)
(* system: the api-gateway (REST task routes, WebSocket server, the        *)
(* taskAssigner and timeoutChecker workers, the auth and employees routes) *)
(* and the stand-alone worker-service, all acting on one PostgreSQL store. *)
(*                                                                         *)
(* The store is the union of the columns the statements name: the gateway  *)
(* reads and writes ats_tasks.due_at and employees.last_heartbeat, the     *)
(* worker-service ats_tasks.deadline and employees.is_active.  Every       *)
(* db.query outside db.transaction is its own commit, so a route is a      *)
(* sequence of steps; a transaction that holds its row locks from its      *)
(* first statement to COMMIT is one step.                                  *)
(***************************************************************************)
EXTENDS Integers, Sequences, FiniteSets, TLC

\* ------------------------------------------------------------- bounds
MaxEnqueue == 1
MaxTasks == 4
MaxIncidents == 2
MaxCompleted == 1
MaxRetry == 2
SeedRetries == 3

\* ---------------------------------------------------------- constants
WARNINGS_PER_VIOLATION == 3
MAX_VIOLATIONS == 4
warningsPerViolation == 3
violationsForSuspension == 4

NULL == "null"
Emps == {"e1", "e2"}
Cands == {"c1", "c2"}
\* the candidates the ATS service queues tasks for
TaskCands == {"c1"}
Jobs == {"j1"}
Urls == {"u1"}
\* the reasons a reviewer gives to POST /:id/fail
Reasons == {"r1"}
\* the ATS scores (percent) the ATS service reports: below the auto-apply
\* threshold and exactly at it
Scores == {85, 90}
\* the score from which a candidate is applied automatically (percent)
Threshold == 90
Presences == {"available", "busy", "offline"}
Active == {"assigned", "in_progress"}
Terminal == {"completed", "failed"}
\* (warnings, violations) reviewer e1 may have accumulated before the run
InitCounters == {<<0, 0>>, <<2, 2>>, <<2, 3>>}

VARIABLES
    tasks,      \* ats_tasks rows in created_at order; the index is the id
    emps,       \* employees rows of the reviewers
    cands,      \* candidates.resume_url
    apps,       \* applications rows, keyed by (candidate_id, job_id)
    incidents,  \* employee_incidents rows in insertion order
    clients,    \* the WebSocket server's map from connected user id to socket
    req,        \* the api-gateway handler in flight, at its next statement
    mon,        \* checkTimeouts: the overdue rows still to be handled
    wa,         \* worker-service assignTasks: the employees it selected
    bus,        \* the events the latest step published on the task channels
    warn,       \* checkWarnings: the Redis task_warning keys, each running
                \* sweep's remaining rows, and the warnings sent so far
    tx          \* worker-service transactions in flight: the rows each has
                \* selected FOR UPDATE and the employee rows it has updated

vars ==
    <<tasks, emps, cands, apps, incidents, clients, req, mon, wa, bus, warn, tx>>
store == <<tasks, emps, cands, apps, incidents>>

TaskIds == 1..Len(tasks)

\* redis.publish(channel, JSON.stringify({type, taskId, employeeId, ...}))
Event(type, t, e) == [type |-> type, taskId |-> t, employeeId |-> e]

\* the api-gateway processes that run startTimeoutChecker
Instances == {"g1", "g2"}
\* minutesRemaining === 5 || minutesRemaining === 3 || minutesRemaining === 1
Marks == {5, 3, 1}
NoSweep == [rows |-> <<>>, pc |-> "exists"]
NoWarn == [keys |-> {}, sweep |-> [i \in Instances |-> NoSweep],
           sent |-> [k \in {} |-> 0]]

\* the worker-service's pool connections with an open transaction
TxIds == {"x1", "x2"}
NoTx == [op |-> "none", rows |-> <<>>, i |-> 0]
NoTxs == [x \in TxIds |-> NoTx]

NoReq == [op |-> "none", user |-> NULL, task |-> 0, pc |-> "none",
          arg |-> NULL, w |-> 0, v |-> 0]
Idle == req = NoReq
Handler(op, e, t, pc, arg) ==
    [op |-> op, user |-> e, task |-> t, pc |-> pc, arg |-> arg, w |-> 0, v |-> 0]

NewTask(c, j, atsScore, url) ==
    [status |-> "queued", assigned_to |-> NULL, assigned_at |-> NULL,
     due_at |-> NULL, deadline |-> NULL, started_at |-> NULL,
     completed_at |-> NULL, old_resume_url |-> url, new_resume_url |-> NULL,
     retry_count |-> 0, candidate_id |-> c, job_id |-> j, ats_score |-> atsScore,
     notes |-> <<>>]

\* A socket in the clients map.  isAlive is the flag of the heartbeat check;
\* listening says whether the connection handler has reached its ws.on(...)
\* registrations; open is FALSE once the socket has closed; answered says
\* whether the client has sent the pong for the server's latest ping;
\* registered says whether clients.get(userId) is this socket; older says
\* whether an earlier socket of the same user is still open in wss.clients
\* with its handlers registered.
NewSocket ==
    [isAlive |-> TRUE, listening |-> FALSE, open |-> TRUE, answered |-> TRUE,
     registered |-> TRUE, older |-> FALSE]
Socket == [NewSocket EXCEPT !.listening = TRUE]
\* the events of e's socket reach the handlers registered in the connection
\* handler
Listening(e) ==
    e \in DOMAIN clients /\ clients[e].open /\ clients[e].listening
drop(e) == [f \in DOMAIN clients \ {e} |-> clients[f]]

NoApp == [resume_used_url |-> NULL, task_id |-> 0, ats_score_at_submission |-> 0,
         auto_submitted |-> FALSE]

\* The rows after init.sql and any earlier history: no task yet, reviewer e1
\* with the counters c; both reviewers in presence `status`.
InitRows(status, hb, cl) ==
    /\ tasks = <<>>
    /\ \E c \in InitCounters :
          emps = [e \in Emps |->
                    [status |-> status, current_task_id |-> 0,
                     tasks_completed |-> 0,
                     warnings |-> IF e = "e1" THEN c[1] ELSE 0,
                     violations |-> IF e = "e1" THEN c[2] ELSE 0,
                     is_active |-> TRUE, last_heartbeat |-> hb,
                     hb_latest |-> (hb = "fresh" /\ e = "e2")]]
    /\ cands = [c \in Cands |-> "u0"]
    /\ apps = [k \in Cands \X Jobs |-> NoApp]
    /\ incidents = <<>>
    /\ clients = [e \in cl |-> Socket]
    /\ req = NoReq
    /\ mon = <<>>
    /\ wa = <<>>
    /\ bus = <<>>
    /\ warn = NoWarn
    /\ tx = NoTxs

\* Both reviewers have logged in and opened their WebSocket session
\* (updatePresence(userId, 'available') on connection), e2 after e1.
Init == InitRows("available", "fresh", Emps)

\* Nobody has logged in yet.
InitOffline == InitRows("offline", "stale", {})

\* ------------------------------------------------------------ intake
\* queueTask: snapshot of the candidate's resume, INSERT ... 'queued' with
\* the score it was given
queueTask(c, j, atsScore) ==
    /\ Len(tasks) < MaxEnqueue
    /\ tasks' = Append(tasks, NewTask(c, j, atsScore, cands[c]))
    /\ UNCHANGED <<emps, cands, apps, incidents, clients, req, mon, wa, warn, tx>>
    /\ bus' = <<>>

\* autoSubmitApplication: INSERT INTO applications ... auto_submitted TRUE ON
\* CONFLICT (candidate_id, job_id) DO NOTHING, with the candidate's resume
\* (the candidate's and the job's application counters are not part of the
\* state)
autoSubmitApplication(c, j, atsScore) ==
    /\ apps[<<c, j>>] = NoApp
    /\ apps' = [apps EXCEPT ![<<c, j>>] =
                    [resume_used_url |-> cands[c], task_id |-> 0,
                     ats_score_at_submission |-> atsScore,
                     auto_submitted |-> TRUE]]
    /\ UNCHANGED <<tasks, emps, cands, incidents, clients, req, mon, wa, warn, tx>>
    /\ bus' = <<>>

\* ------------------------------------------------------------- time
\* NOW() moves past the due_at the gateway's assigner wrote
dueAtPasses(t) ==
    /\ t \in TaskIds
    /\ tasks[t].due_at = "future"
    /\ tasks' = [tasks EXCEPT ![t].due_at = "past"]
    /\ UNCHANGED <<emps, cands, apps, incidents, clients, req, mon, wa, warn, tx>>
    /\ bus' = <<>>

\* NOW() moves past the deadline the worker-service wrote
deadlinePasses(t) ==
    /\ t \in TaskIds
    /\ tasks[t].deadline = "future"
    /\ tasks' = [tasks EXCEPT ![t].deadline = "past"]
    /\ UNCHANGED <<emps, cands, apps, incidents, clients, req, mon, wa, warn, tx>>
    /\ bus' = <<>>

\* last_heartbeat = NOW() on the row of e in the rows E.  The instants are
\* kept as what the statements compare: whether a heartbeat is newer than
\* NOW() - INTERVAL '5 minutes' (fresh) and whose heartbeat is the latest.
Beat(E, e) ==
    [f \in Emps |-> IF f = e
                    THEN [E[f] EXCEPT !.last_heartbeat = "fresh", !.hb_latest = TRUE]
                    ELSE [E[f] EXCEPT !.hb_latest = FALSE]]

\* NOW() - INTERVAL '5 minutes' moves past a last_heartbeat, the older
\* heartbeat first
HeartbeatAges(e) ==
    /\ emps[e].last_heartbeat = "fresh"
    /\ emps[e].hb_latest => \A f \in Emps \ {e} : emps[f].last_heartbeat = "stale"
    /\ emps' = [emps EXCEPT ![e].last_heartbeat = "stale"]
    /\ UNCHANGED <<tasks, cands, apps, incidents, clients, req, mon, wa, warn, tx>>
    /\ bus' = <<>>

\* -------------------------------------------- api-gateway taskAssigner
\* WHERE status = 'queued' ORDER BY created_at ASC LIMIT 1
QueuedIds == {t \in TaskIds : tasks[t].status = "queued"}
OldestQueued == CHOOSE t \in QueuedIds : \A u \in QueuedIds : t <= u

\* WHERE status = 'available' AND violations < 4 AND current_task_id IS NULL
\*   AND last_heartbeat > NOW() - INTERVAL '5 minutes'
Eligible(e) ==
    /\ emps[e].status = "available"
    /\ emps[e].violations < 4
    /\ emps[e].current_task_id = 0
    /\ emps[e].last_heartbeat = "fresh"

\* ORDER BY tasks_completed ASC, last_heartbeat DESC LIMIT 1
BestEligible ==
    {e \in Emps : Eligible(e) /\
        \A f \in Emps \ {e} : Eligible(f) =>
            \/ emps[e].tasks_completed < emps[f].tasks_completed
            \/ /\ emps[e].tasks_completed = emps[f].tasks_completed
               /\ ~emps[f].hb_latest}

assignNextTask ==
    /\ QueuedIds # {}
    /\ \E e \in BestEligible :
        /\ tasks' = [tasks EXCEPT ![OldestQueued] =
                        [@ EXCEPT !.status = "assigned", !.assigned_to = e,
                                  !.assigned_at = "set", !.due_at = "future"]]
        /\ emps' = [emps EXCEPT ![e].status = "busy",
                                ![e].current_task_id = OldestQueued]
        /\ bus' = <<Event("TASK_ASSIGNED", OldestQueued, e)>>
    /\ UNCHANGED <<cands, apps, incidents, clients, req, mon, wa, warn, tx>>

\* assignNextTask when the COMMIT of db.transaction fails after the callback
\* has run to its end: ROLLBACK undoes the two UPDATEs, the event is out
\* a ROLLBACK that undoes the UPDATE of employees alone
assignNextTaskHalfAborted ==
    /\ QueuedIds # {}
    /\ \E e \in BestEligible :
        /\ tasks' = [tasks EXCEPT ![OldestQueued] =
                        [@ EXCEPT !.status = "assigned", !.assigned_to = e,
                                  !.assigned_at = "set", !.due_at = "future"]]
        /\ bus' = <<Event("TASK_ASSIGNED", OldestQueued, e)>>
    /\ UNCHANGED <<emps, cands, apps, incidents, clients, req, mon, wa, warn, tx>>

assignNextTaskAborted ==
    /\ QueuedIds # {}
    /\ \E e \in BestEligible : bus' = <<Event("TASK_ASSIGNED", OldestQueued, e)>>
    /\ UNCHANGED <<tasks, emps, cands, apps, incidents, clients, req, mon, wa, warn, tx>>

\* console.error of the error a rejected redis.publish raised
PublishError(type, t, e) ==
    [type |-> "error", event |-> type, taskId |-> t, employeeId |-> e]

\* assignNextTask when await redis.publish rejects (the Redis client is
\* closed or its connection is lost): the callback of db.transaction throws
\* after both UPDATEs, ROLLBACK undoes them, the catch logs the error
assignNextTaskPublishFails ==
    /\ QueuedIds # {}
    /\ \E e \in BestEligible :
          bus' = <<PublishError("TASK_ASSIGNED", OldestQueued, e)>>
    /\ UNCHANGED <<tasks, emps, cands, apps, incidents, clients, req, mon, wa, warn, tx>>

\* ------------------------------------------------- auth.routes (REST)
\* POST /api/auth/login: UPDATE employees SET last_heartbeat = NOW(),
\* status = 'available' WHERE id = $1
login(e) ==
    /\ emps' = Beat([emps EXCEPT ![e].status = "available"], e)
    /\ UNCHANGED <<tasks, cands, apps, incidents, clients, req, mon, wa, warn, tx>>
    /\ bus' = <<>>

\* POST /api/auth/logout: UPDATE employees SET status = 'offline'
logout(e) ==
    /\ emps' = [emps EXCEPT ![e].status = "offline"]
    /\ UNCHANGED <<tasks, cands, apps, incidents, clients, req, mon, wa, warn, tx>>
    /\ bus' = <<>>

\* PUT /api/auth/presence, first statement.  For 'available' the route
\* first reads current_task_id and throws 400 when it is set; for 'busy'
\* and 'offline' the first statement is the UPDATE itself.
putPresenceCheck(e, s) ==
    /\ Idle
    /\ s = "available"
    /\ req' = Handler("presence", e, 0,
                      IF emps[e].current_task_id # 0 THEN "400" ELSE "update", s)
    /\ UNCHANGED <<tasks, emps, cands, apps, incidents, clients, mon, wa, warn, tx>>
    /\ bus' = <<>>

putPresenceUpdate(e, s) ==
    /\ \/ Idle /\ s \in {"busy", "offline"}
       \/ req = Handler("presence", e, 0, "update", s)
    /\ emps' = Beat([emps EXCEPT ![e].status = s], e)
    /\ req' = Handler("presence", e, 0, "200", s)
    /\ UNCHANGED <<tasks, cands, apps, incidents, clients, mon, wa, warn, tx>>
    /\ bus' = <<>>

\* --------------------------------------------------- WebSocket server
\* updatePresence: UPDATE employees SET status = $1, last_heartbeat = NOW()
updatePresence(e, s) ==
    emps' = Beat([emps EXCEPT ![e].status = s], e)

\* wss.on('connection'): ws.isAlive = true; clients.set(userId, ws); await
\* updatePresence(userId, 'available'), up to the UPDATE.  A user connects
\* again only after their previous socket has gone.
wsConnect(e) ==
    /\ e \in DOMAIN clients => ~clients[e].open
    /\ clients' = [f \in DOMAIN clients \cup {e} |->
                      IF f = e THEN NewSocket ELSE clients[f]]
    /\ updatePresence(e, "available")
    /\ UNCHANGED <<tasks, cands, apps, incidents, req, mon, wa, warn, tx>>
    /\ bus' = <<>>

\* wss.on('connection') for a user whose earlier socket is still open:
\* clients.set(userId, ws) replaces the map's entry, the earlier socket stays
\* in wss.clients with its handlers; await updatePresence(userId, 'available')
wsConnectAgain(e) ==
    /\ Listening(e)
    /\ clients[e].registered /\ ~clients[e].older
    /\ clients' = [clients EXCEPT ![e] = [NewSocket EXCEPT !.older = TRUE]]
    /\ updatePresence(e, "available")
    /\ UNCHANGED <<tasks, cands, apps, incidents, req, mon, wa, warn, tx>>
    /\ bus' = <<>>

\* ws.on('close') or ws.on('error') of the earlier socket:
\* handleDisconnect(userId): clients.delete(userId); status = 'offline'
handleDisconnectOlder(e) ==
    /\ e \in DOMAIN clients
    /\ clients[e].older
    /\ clients' = [clients EXCEPT ![e].older = FALSE, ![e].registered = FALSE]
    /\ emps' = [emps EXCEPT ![e].status = "offline"]
    /\ UNCHANGED <<tasks, cands, apps, incidents, req, mon, wa, warn, tx>>
    /\ bus' = <<>>

\* the connection handler resumes after its awaits and registers ws.on('pong'),
\* ws.on('message'), ws.on('close') and ws.on('error')
wsListen(e) ==
    /\ e \in DOMAIN clients
    /\ ~clients[e].listening
    /\ clients' = [clients EXCEPT ![e].listening = TRUE]
    /\ UNCHANGED <<tasks, emps, cands, apps, incidents, req, mon, wa, warn, tx>>
    /\ bus' = <<>>

\* the socket closes before ws.on('close') is registered: the close event has
\* no listener, and the server drops the socket from wss.clients
wsCloseUnheard(e) ==
    /\ e \in DOMAIN clients
    /\ clients[e].open /\ ~clients[e].listening
    /\ clients' = [clients EXCEPT ![e].open = FALSE]
    /\ UNCHANGED <<tasks, emps, cands, apps, incidents, req, mon, wa, warn, tx>>
    /\ bus' = <<>>

\* handleMessage PRESENCE_UPDATE
wsPresenceUpdate(e, s) ==
    /\ Listening(e)
    /\ updatePresence(e, s)
    /\ UNCHANGED <<tasks, cands, apps, incidents, clients, req, mon, wa, warn, tx>>
    /\ bus' = <<>>

\* handleMessage HEARTBEAT and the pong handler: updateHeartbeat
updateHeartbeat(e) ==
    /\ Listening(e)
    /\ emps[e].last_heartbeat = "stale" \/ ~emps[e].hb_latest
    /\ emps' = Beat(emps, e)
    /\ UNCHANGED <<tasks, cands, apps, incidents, clients, req, mon, wa, warn, tx>>
    /\ bus' = <<>>

\* ws.on('close'): handleDisconnect: clients.delete(userId); status = 'offline'
handleDisconnect(e) ==
    /\ Listening(e)
    /\ clients' = drop(e)
    /\ emps' = [emps EXCEPT ![e].status = "offline"]
    /\ UNCHANGED <<tasks, cands, apps, incidents, req, mon, wa, warn, tx>>
    /\ bus' = <<>>

\* heartbeatInterval: for every socket of wss.clients, a socket whose isAlive
\* is false gets handleDisconnect(userId) and ws.terminate(); any other gets
\* isAlive = false and a ping.  The interval is 30 seconds: a connection
\* handler that was awaiting at one check has resumed by the next.
Missed(e) == e \in DOMAIN clients /\ clients[e].open /\ ~clients[e].isAlive

heartbeatInterval ==
    /\ \E e \in DOMAIN clients : clients[e].open
    /\ \A e \in DOMAIN clients : Missed(e) => clients[e].listening
    /\ clients' = [e \in {f \in DOMAIN clients : ~Missed(f)} |->
                      IF clients[e].open
                      THEN [clients[e] EXCEPT !.isAlive = FALSE, !.answered = FALSE]
                      ELSE clients[e]]
    /\ emps' = [e \in Emps |->
                   IF Missed(e) THEN [emps[e] EXCEPT !.status = "offline"]
                   ELSE emps[e]]
    /\ UNCHANGED <<tasks, cands, apps, incidents, req, mon, wa, warn, tx>>
    /\ bus' = <<>>

\* the client answers the ping.  ws.on('pong'): ws.isAlive = true;
\* updateHeartbeat(userId); a pong that arrives before the registration has
\* no listener
pong(e) ==
    /\ e \in DOMAIN clients
    /\ clients[e].open /\ ~clients[e].answered
    /\ clients' = [clients EXCEPT ![e].answered = TRUE,
                                  ![e].isAlive = clients[e].listening \/ @]
    /\ emps' = IF clients[e].listening THEN Beat(emps, e) ELSE emps
    /\ UNCHANGED <<tasks, cands, apps, incidents, req, mon, wa, warn, tx>>
    /\ bus' = <<>>

\* handleMessage TASK_STARTED: UPDATE ats_tasks SET status = 'in_progress',
\* started_at = NOW() WHERE id = $1 AND assigned_to = $2, then the handler
\* awaits broadcastToRole.
\* the same UPDATE with WHERE id = $1 alone
wsStartRowsById(e, t) == t \in TaskIds

wsStartRows(e, t) == tasks[t].assigned_to = e

wsTaskStarted(e, t) ==
    /\ Idle
    /\ Listening(e)
    /\ t \in TaskIds
    /\ tasks' = IF wsStartRows(e, t)
                THEN [tasks EXCEPT ![t].status = "in_progress",
                                   ![t].started_at = "set"]
                ELSE tasks
    /\ req' = Handler("ws_start", e, t, "broadcast", NULL)
    /\ UNCHANGED <<emps, cands, apps, incidents, clients, mon, wa, warn, tx>>
    /\ bus' = <<>>

\* ------------------------------------------------ tasks.routes (REST)
\* POST /:id/start: SELECT ... WHERE id = $1 AND assigned_to = $2 AND
\* status = 'assigned'; no row throws 404
startRows(e, t) == tasks[t].assigned_to = e /\ tasks[t].status = "assigned"

startCheck(e, t) ==
    /\ Idle
    /\ t \in TaskIds
    /\ req' = Handler("start", e, t, IF startRows(e, t) THEN "update" ELSE "404", NULL)
    /\ UNCHANGED <<tasks, emps, cands, apps, incidents, clients, mon, wa, warn, tx>>
    /\ bus' = <<>>

\* UPDATE ats_tasks SET status = 'in_progress', started_at = NOW()
\* WHERE id = $1
startUpdate ==
    /\ req.op = "start" /\ req.pc = "update"
    /\ tasks' = [tasks EXCEPT ![req.task].status = "in_progress",
                              ![req.task].started_at = "set"]
    /\ req' = [req EXCEPT !.pc = "200"]
    /\ bus' = <<Event("TASK_STARTED", req.task, req.user)>>
    /\ UNCHANGED <<emps, cands, apps, incidents, clients, mon, wa, warn, tx>>

\* POST /:id/complete: SELECT ... WHERE t.id = $1 AND t.assigned_to = $2
\* AND t.status IN ('assigned', 'in_progress'); no row throws 404
ownedActiveRows(e, t) == tasks[t].assigned_to = e /\ tasks[t].status \in Active

completeCheck(e, t, url) ==
    /\ Idle
    /\ t \in TaskIds
    /\ ownedActiveRows(e, t) => emps[e].tasks_completed < MaxCompleted
    /\ req' = Handler("complete", e, t,
                      IF ownedActiveRows(e, t) THEN "task" ELSE "404", url)
    /\ UNCHANGED <<tasks, emps, cands, apps, incidents, clients, mon, wa, warn, tx>>
    /\ bus' = <<>>

\* UPDATE ats_tasks SET status = 'completed', completed_at = NOW(),
\* new_resume_url = $1, notes = $2 WHERE id = $3 (the request carries no
\* notes)
completeTask ==
    /\ req.op = "complete" /\ req.pc = "task"
    /\ tasks' = [tasks EXCEPT ![req.task].status = "completed",
                              ![req.task].completed_at = "set",
                              ![req.task].new_resume_url = req.arg,
                              ![req.task].notes = <<>>]
    /\ req' = [req EXCEPT !.pc = "candidate"]
    /\ UNCHANGED <<emps, cands, apps, incidents, clients, mon, wa, warn, tx>>
    /\ bus' = <<>>

\* UPDATE candidates SET resume_url = $1 WHERE id = $2
completeCandidate ==
    /\ req.op = "complete" /\ req.pc = "candidate"
    /\ cands' = [cands EXCEPT ![tasks[req.task].candidate_id] = req.arg]
    /\ req' = [req EXCEPT !.pc = "employee"]
    /\ UNCHANGED <<tasks, emps, apps, incidents, clients, mon, wa, warn, tx>>
    /\ bus' = <<>>

\* UPDATE employees SET status = 'available', current_task_id = NULL,
\* tasks_completed = tasks_completed + 1 WHERE id = $2
completeEmployee ==
    /\ req.op = "complete" /\ req.pc = "employee"
    /\ emps' = [emps EXCEPT ![req.user].status = "available",
                            ![req.user].current_task_id = 0,
                            ![req.user].tasks_completed = @ + 1]
    /\ req' = [req EXCEPT !.pc = "application"]
    /\ UNCHANGED <<tasks, cands, apps, incidents, clients, mon, wa, warn, tx>>
    /\ bus' = <<>>

\* INSERT INTO applications ... auto_submitted FALSE ON CONFLICT
\* (candidate_id, job_id) DO UPDATE SET resume_used_url = $4
completeApplication ==
    /\ req.op = "complete" /\ req.pc = "application"
    /\ LET k == <<tasks[req.task].candidate_id, tasks[req.task].job_id>>
       IN apps' = [apps EXCEPT ![k] =
                      IF @ = NoApp
                      THEN [resume_used_url |-> req.arg, task_id |-> req.task,
                            ats_score_at_submission |-> tasks[req.task].ats_score,
                            auto_submitted |-> FALSE]
                      ELSE [@ EXCEPT !.resume_used_url = req.arg]]
    /\ req' = [req EXCEPT !.pc = "200"]
    /\ bus' = <<Event("TASK_COMPLETED", req.task, req.user)>>
    /\ UNCHANGED <<tasks, emps, cands, incidents, clients, mon, wa, warn, tx>>

\* POST /:id/fail: the same ownership SELECT as complete; no row throws 404
failCheck(e, t, reason) ==
    /\ Idle
    /\ t \in TaskIds
    /\ ownedActiveRows(e, t) => tasks[t].retry_count < MaxRetry
    /\ req' = Handler("fail", e, t,
                      IF ownedActiveRows(e, t) THEN "task" ELSE "404", reason)
    /\ UNCHANGED <<tasks, emps, cands, apps, incidents, clients, mon, wa, warn, tx>>
    /\ bus' = <<>>

\* UPDATE ats_tasks SET status = 'queued', assigned_to = NULL, assigned_at
\* = NULL, due_at = NULL, started_at = NULL, notes = COALESCE(notes, '') ||
\* E'\n[FAILED] ' || $1, retry_count = retry_count + 1
\* the same SET list without retry_count = retry_count + 1
failedRowSameRetry(row, reason) ==
    [row EXCEPT !.status = "queued", !.assigned_to = NULL, !.assigned_at = NULL,
                !.due_at = NULL, !.started_at = NULL,
                !.notes = Append(@, <<"FAILED", reason>>)]

failedRow(row, reason) ==
    [row EXCEPT !.status = "queued", !.assigned_to = NULL, !.assigned_at = NULL,
                !.due_at = NULL, !.started_at = NULL, !.retry_count = @ + 1,
                !.notes = Append(@, <<"FAILED", reason>>)]

failTask ==
    /\ req.op = "fail" /\ req.pc = "task"
    /\ tasks' = [tasks EXCEPT ![req.task] = failedRow(@, req.arg)]
    /\ req' = [req EXCEPT !.pc = "employee"]
    /\ UNCHANGED <<emps, cands, apps, incidents, clients, mon, wa, warn, tx>>
    /\ bus' = <<>>

\* UPDATE employees SET status = 'available', current_task_id = NULL
failEmployee ==
    /\ req.op = "fail" /\ req.pc = "employee"
    /\ emps' = [emps EXCEPT ![req.user].status = "available",
                            ![req.user].current_task_id = 0]
    /\ req' = [req EXCEPT !.pc = "200"]
    /\ UNCHANGED <<tasks, cands, apps, incidents, clients, mon, wa, warn, tx>>
    /\ bus' = <<>>

\* res.json / the error handler's response / the end of a WebSocket handler
respond ==
    /\ req.pc \in {"200", "400", "404", "broadcast"}
    /\ req' = NoReq
    /\ UNCHANGED <<tasks, emps, cands, apps, incidents, clients, mon, wa, warn, tx>>
    /\ bus' = <<>>

\* The api-gateway process is killed while a handler or a timeout sweep is
\* under way, and started again (startServer): what the process held in
\* memory is gone, the rows stay as the committed statements left them.
kill ==
    /\ req # NoReq \/ mon # <<>>
    /\ req' = NoReq
    /\ mon' = <<>>
    /\ clients' = [e \in {} |-> Socket]
    /\ bus' = <<>>
    /\ UNCHANGED <<tasks, emps, cands, apps, incidents, wa, warn, tx>>

\* ------------------------------------------- api-gateway timeoutChecker
\* newWarnings / newViolations / newStatus / incidentType of handleTimeout
promoted(w) == w + 1 >= WARNINGS_PER_VIOLATION
newWarnings(w) == IF promoted(w) THEN 0 ELSE w + 1
newViolations(w, v) == IF promoted(w) THEN v + 1 ELSE v
newStatus(w, v) ==
    IF promoted(w) /\ newViolations(w, v) >= MAX_VIOLATIONS
    THEN "offline" ELSE "available"
incidentType(w) == IF promoted(w) THEN "violation" ELSE "warning"

\* every order in which a SELECT without ORDER BY may return the rows S
Orders(S) ==
    {q \in [1..Cardinality(S) -> S] : \A a, b \in 1..Cardinality(S) : q[a] = q[b] => a = b}

\* checkTimeouts: SELECT t.id, t.assigned_to, e.warnings, e.violations FROM
\* ats_tasks t JOIN employees e ON t.assigned_to = e.id WHERE t.status IN
\* ('assigned', 'in_progress') AND t.due_at < $1, read outside any
\* transaction; the rows are then handled one transaction each.
Overdue == {t \in TaskIds : /\ tasks[t].status \in Active
                            /\ tasks[t].due_at = "past"
                            /\ tasks[t].assigned_to \in Emps}

OverdueRow(t) ==
    [id |-> t, assigned_to |-> tasks[t].assigned_to,
     employee_warnings |-> emps[tasks[t].assigned_to].warnings,
     employee_violations |-> emps[tasks[t].assigned_to].violations]

checkTimeouts ==
    /\ mon = <<>>
    /\ Overdue # {}
    /\ Len(incidents) + Cardinality(Overdue) <= MaxIncidents
    /\ \E q \in Orders(Overdue) : mon' = [i \in 1..Len(q) |-> OverdueRow(q[i])]
    /\ UNCHANGED <<tasks, emps, cands, apps, incidents, clients, req, wa, warn, tx>>
    /\ bus' = <<>>

\* checkTimeouts of a second api-gateway instance, or of the next interval
\* while the previous sweep is still at its rows: the same SELECT; its rows
\* are handled after the rows already waiting
checkTimeoutsOverlap ==
    /\ mon # <<>>
    /\ Overdue # {}
    /\ Len(incidents) + Len(mon) + Cardinality(Overdue) <= MaxIncidents
    /\ \E q \in Orders(Overdue) :
          mon' = mon \o [i \in 1..Len(q) |-> OverdueRow(q[i])]
    /\ bus' = <<>>
    /\ UNCHANGED <<tasks, emps, cands, apps, incidents, clients, req, wa, warn, tx>>

\* handleTimeout(task): one transaction.  UPDATE ats_tasks ... WHERE id = $1;
\* UPDATE employees SET warnings, violations, status, current_task_id = NULL
\* WHERE id = task.assigned_to, from the counters of the scan; INSERT INTO
\* employee_incidents.
requeued(row) ==
    [row EXCEPT !.status = "queued", !.assigned_to = NULL, !.assigned_at = NULL,
                !.due_at = NULL, !.started_at = NULL, !.retry_count = @ + 1]

\* redis.publish of WARNING_ADDED or VIOLATION_ADDED, and of MANAGER_ALERT
\* after a violation
timeoutEvents(task) ==
    IF promoted(task.employee_warnings)
    THEN <<Event("VIOLATION_ADDED", task.id, task.assigned_to),
           Event("MANAGER_ALERT", 0, task.assigned_to)>>
    ELSE <<Event("WARNING_ADDED", task.id, task.assigned_to)>>

handleTimeout ==
    /\ mon # <<>>
    /\ LET task == Head(mon)
           w == task.employee_warnings
           v == task.employee_violations
       IN /\ tasks' = [tasks EXCEPT ![task.id] = requeued(@)]
          /\ emps' = [emps EXCEPT ![task.assigned_to] =
                         [@ EXCEPT !.warnings = newWarnings(w),
                                   !.violations = newViolations(w, v),
                                   !.status = newStatus(w, v),
                                   !.current_task_id = 0]]
          /\ incidents' = Append(incidents,
                                 [employee_id |-> task.assigned_to,
                                  type |-> incidentType(w), task_id |-> task.id])
    /\ bus' = timeoutEvents(Head(mon))
    /\ mon' = Tail(mon)
    /\ UNCHANGED <<cands, apps, clients, req, wa, warn, tx>>

\* handleTimeout when the COMMIT fails: ROLLBACK, the error is logged and
\* checkTimeouts goes on to the next row
handleTimeoutAborted ==
    /\ mon # <<>>
    /\ bus' = timeoutEvents(Head(mon))
    /\ mon' = Tail(mon)
    /\ UNCHANGED <<tasks, emps, cands, apps, incidents, clients, req, wa, warn, tx>>

\* checkWarnings of instance i, the SELECT: the active tasks whose due_at is
\* ahead and within WARNING_MINUTES, each with its rounded minutes_remaining;
\* rows that are not at a mark are skipped by the loop.
DueSoon == {t \in TaskIds : /\ tasks[t].status \in Active
                            /\ tasks[t].due_at = "future"}

checkWarnings(i) ==
    /\ warn.sweep[i] = NoSweep
    /\ DueSoon # {}
    /\ \E q \in Orders(DueSoon), m \in Marks :
          warn' = [warn EXCEPT !.sweep[i] =
                     [rows |-> [n \in 1..Len(q) |->
                                  [id |-> q[n], assigned_to |-> tasks[q[n]].assigned_to,
                                   minutesRemaining |-> m]],
                      pc |-> "exists"]]
    /\ bus' = <<>>
    /\ UNCHANGED <<tasks, emps, cands, apps, incidents, clients, req, mon, wa, tx>>

warnKey(row) == <<row.id, row.minutesRemaining>>

\* const alreadyWarned = await redis.exists(warnKey)
warnExists(i) ==
    /\ warn.sweep[i].rows # <<>> /\ warn.sweep[i].pc = "exists"
    /\ warn' = IF warnKey(Head(warn.sweep[i].rows)) \in warn.keys
               THEN [warn EXCEPT !.sweep[i].rows = Tail(@)]
               ELSE [warn EXCEPT !.sweep[i].pc = "set"]
    /\ bus' = <<>>
    /\ UNCHANGED <<tasks, emps, cands, apps, incidents, clients, req, mon, wa, tx>>

\* handleTimeout when await redis.publish rejects: the callback throws after
\* the UPDATEs and the INSERT, ROLLBACK undoes them, the catch logs the error
\* and checkTimeouts goes on to the next row
handleTimeoutPublishFails ==
    /\ mon # <<>>
    /\ bus' = <<PublishError(timeoutEvents(Head(mon))[1].type,
                             Head(mon).id, Head(mon).assigned_to)>>
    /\ mon' = Tail(mon)
    /\ UNCHANGED <<tasks, emps, cands, apps, incidents, clients, req, wa, warn, tx>>

\* await redis.set(warnKey, '1', { EX: 120 }): client.setEx
warnSet(i) ==
    /\ warn.sweep[i].rows # <<>> /\ warn.sweep[i].pc = "set"
    /\ warn' = [warn EXCEPT !.keys = @ \cup {warnKey(Head(warn.sweep[i].rows))},
                            !.sweep[i].pc = "publish"]
    /\ bus' = <<>>
    /\ UNCHANGED <<tasks, emps, cands, apps, incidents, clients, req, mon, wa, tx>>

\* await redis.publish('task_updates', TASK_WARNING)
timesSent(k) == IF k \in DOMAIN warn.sent THEN warn.sent[k] ELSE 0

warnPublish(i) ==
    /\ warn.sweep[i].rows # <<>> /\ warn.sweep[i].pc = "publish"
    /\ LET row == Head(warn.sweep[i].rows)
           k == warnKey(row)
       IN /\ bus' = <<[type |-> "TASK_WARNING", taskId |-> row.id,
                       employeeId |-> row.assigned_to,
                       minutesRemaining |-> row.minutesRemaining]>>
          /\ warn' = [warn EXCEPT
                        !.sweep[i] = [rows |-> Tail(@.rows), pc |-> "exists"],
                        !.sent = [j \in DOMAIN @ \cup {k} |->
                                    IF j = k THEN timesSent(j) + 1 ELSE timesSent(j)]]
    /\ UNCHANGED <<tasks, emps, cands, apps, incidents, clients, req, mon, wa, tx>>

\* addWarning (manual): SELECT warnings, violations; then UPDATE employees
\* and INSERT INTO employee_incidents, three statements of their own.
addWarningRead(e) ==
    /\ Idle
    /\ Len(incidents) < MaxIncidents
    /\ req' = [Handler("addWarning", e, 0, "update", NULL)
                 EXCEPT !.w = emps[e].warnings, !.v = emps[e].violations]
    /\ UNCHANGED <<tasks, emps, cands, apps, incidents, clients, mon, wa, warn, tx>>
    /\ bus' = <<>>

addWarningUpdate ==
    /\ req.op = "addWarning" /\ req.pc = "update"
    /\ emps' = [emps EXCEPT ![req.user].warnings = newWarnings(req.w),
                            ![req.user].violations = newViolations(req.w, req.v)]
    /\ req' = [req EXCEPT !.pc = "incident"]
    /\ UNCHANGED <<tasks, cands, apps, incidents, clients, mon, wa, warn, tx>>
    /\ bus' = <<>>

addWarningIncident ==
    /\ req.op = "addWarning" /\ req.pc = "incident"
    /\ incidents' = Append(incidents,
                           [employee_id |-> req.user,
                            type |-> incidentType(req.w), task_id |-> 0])
    /\ req' = [req EXCEPT !.pc = "200"]
    /\ UNCHANGED <<tasks, emps, cands, apps, clients, mon, wa, warn, tx>>
    /\ bus' = <<>>

\* ------------------------------------------------- employees.routes
\* PUT /api/employees/:id (admin): status = COALESCE($3, status)
putEmployee(e, s) ==
    /\ emps' = [emps EXCEPT ![e].status = s]
    /\ UNCHANGED <<tasks, cands, apps, incidents, clients, req, mon, wa, warn, tx>>
    /\ bus' = <<>>

\* POST /api/employees/:id/reset-warnings (admin)
resetWarnings(e) ==
    /\ emps[e].warnings # 0
    /\ emps' = [emps EXCEPT ![e].warnings = 0]
    /\ UNCHANGED <<tasks, cands, apps, incidents, clients, req, mon, wa, warn, tx>>
    /\ bus' = <<>>

\* POST /api/employees/:id/reset-violations (admin): violations = 0,
\* status = 'available'
resetViolations(e) ==
    /\ emps[e].violations # 0
    /\ emps' = [emps EXCEPT ![e].violations = 0, ![e].status = "available"]
    /\ UNCHANGED <<tasks, cands, apps, incidents, clients, req, mon, wa, warn, tx>>
    /\ bus' = <<>>

\* ------------------------------------------------------ worker-service
\* assignTasks, first statement: SELECT e.id FROM employees e WHERE e.status
\* = 'available' AND e.is_active = true AND NOT EXISTS (an assigned or
\* in_progress task of e) ORDER BY e.tasks_completed ASC LIMIT 10; no row
\* locks are taken.
workerAvailable ==
    {e \in Emps : /\ emps[e].status = "available"
                  /\ emps[e].is_active
                  /\ ~\E t \in TaskIds : /\ tasks[t].assigned_to = e
                                         /\ tasks[t].status \in Active}

assignTasksSelect ==
    /\ wa = <<>>
    /\ workerAvailable # {}
    /\ \E q \in Orders(workerAvailable) :
        /\ \A a, b \in 1..Len(q) :
              a < b => emps[q[a]].tasks_completed <= emps[q[b]].tasks_completed
        /\ wa' = q
    /\ UNCHANGED <<tasks, emps, cands, apps, incidents, clients, req, mon, warn, tx>>
    /\ bus' = <<>>

\* assignTasks, the rest of the transaction: SELECT id FROM ats_tasks WHERE
\* status = 'queued' ORDER BY created_at ASC LIMIT n FOR UPDATE SKIP LOCKED;
\* then task i goes to employee i: status 'assigned', assigned_to,
\* assigned_at, deadline; the employee's status 'busy'.
QueuedSeq(n) ==
    [i \in 1..n |-> CHOOSE t \in QueuedIds :
                        Cardinality({u \in QueuedIds : u < t}) = i - 1]

assignTasksCommit ==
    /\ wa # <<>>
    /\ LET n == IF Cardinality(QueuedIds) < Len(wa)
                THEN Cardinality(QueuedIds) ELSE Len(wa)
           q == QueuedSeq(n)
       IN /\ tasks' = [t \in TaskIds |->
                        IF \E i \in 1..n : q[i] = t
                        THEN [tasks[t] EXCEPT
                                !.status = "assigned",
                                !.assigned_to = wa[CHOOSE i \in 1..n : q[i] = t],
                                !.assigned_at = "set", !.deadline = "future"]
                        ELSE tasks[t]]
          /\ emps' = [e \in Emps |->
                        IF \E i \in 1..n : wa[i] = e
                        THEN [emps[e] EXCEPT !.status = "busy"]
                        ELSE emps[e]]
          /\ bus' = [i \in 1..n |-> Event("task:assigned", q[i], wa[i])]
    /\ wa' = <<>>
    /\ UNCHANGED <<cands, apps, incidents, clients, req, mon, warn, tx>>

\* assignTasks when a statement of the loop or the COMMIT fails: catch
\* (error), ROLLBACK; the events of the turns already made are out
assignTasksAborted ==
    /\ wa # <<>>
    /\ LET n == IF Cardinality(QueuedIds) < Len(wa)
                THEN Cardinality(QueuedIds) ELSE Len(wa)
           q == QueuedSeq(n)
       IN \E k \in 0..n :
             bus' = [i \in 1..k |-> Event("task:assigned", q[i], wa[i])]
    /\ wa' = <<>>
    /\ UNCHANGED <<tasks, emps, cands, apps, incidents, clients, req, mon, warn, tx>>

\* checkTimeouts of the worker-service, one transaction: SELECT ... WHERE
\* t.status IN ('assigned', 'in_progress') AND t.deadline < NOW() FOR UPDATE
\* OF t SKIP LOCKED; per row: status = 'timeout'; the employee's warnings,
\* violations, is_active from the counters of that SELECT, status =
\* 'available'; an incident; INSERT INTO ats_tasks a 'queued' copy.
workerOverdue == {t \in TaskIds : /\ tasks[t].status \in Active
                                  /\ tasks[t].deadline = "past"
                                  /\ tasks[t].assigned_to \in Emps}

workerNewWarnings(w) == IF w + 1 >= warningsPerViolation THEN 0 ELSE w + 1
workerNewViolations(w, v) == IF w + 1 >= warningsPerViolation THEN v + 1 ELSE v
workerIsActive(w, v) == ~(workerNewViolations(w, v) >= violationsForSuspension)
workerIncidentType(w) ==
    IF w + 1 >= warningsPerViolation THEN "violation" ELSE "warning"

workerCheckTimeouts ==
    /\ workerOverdue # {}
    /\ Len(tasks) + Cardinality(workerOverdue) <= MaxTasks
    /\ Len(incidents) + Cardinality(workerOverdue) <= MaxIncidents
    /\ \E q \in Orders(workerOverdue) :
        /\ tasks' = [t \in TaskIds |->
                        IF t \in workerOverdue
                        THEN [tasks[t] EXCEPT !.status = "timeout"]
                        ELSE tasks[t]]
                    \o [i \in 1..Len(q) |->
                          NewTask(tasks[q[i]].candidate_id, tasks[q[i]].job_id,
                                  tasks[q[i]].ats_score, NULL)]
        /\ incidents' = incidents \o
              [i \in 1..Len(q) |->
                 [employee_id |-> tasks[q[i]].assigned_to,
                  type |-> workerIncidentType(emps[tasks[q[i]].assigned_to].warnings),
                  task_id |-> q[i]]]
        /\ bus' = [i \in 1..Len(q) |->
                     Event("task:timeout", q[i], tasks[q[i]].assigned_to)]
    /\ emps' = [e \in Emps |->
                  IF \E t \in workerOverdue : tasks[t].assigned_to = e
                  THEN [emps[e] EXCEPT
                          !.warnings = workerNewWarnings(emps[e].warnings),
                          !.violations = workerNewViolations(emps[e].warnings,
                                                             emps[e].violations),
                          !.is_active = workerIsActive(emps[e].warnings,
                                                       emps[e].violations),
                          !.status = "available"]
                  ELSE emps[e]]
    /\ UNCHANGED <<cands, apps, clients, req, mon, wa, warn, tx>>

\* ---------------------------------------- worker-service, row locks
\* The same two transactions statement by statement, with the row locks each
\* statement takes.  A transaction's writes are applied when it commits.
lockedTasks(x) == {tx[x].rows[k].task : k \in 1..Len(tx[x].rows)}
lockedEmps(x) == {tx[x].rows[k].emp : k \in 1..tx[x].i}

\* FOR UPDATE SKIP LOCKED: the rows of S no other transaction has locked
SkipLocked(S, x) == S \ UNION {lockedTasks(y) : y \in TxIds \ {x}}

\* ORDER BY created_at ASC LIMIT n
FirstOf(S, n) ==
    [i \in 1..n |-> CHOOSE t \in S : Cardinality({u \in S : u < t}) = i - 1]

\* assignTasks: BEGIN, the SELECT of the available employees (no lock), the
\* SELECT of the queued tasks FOR UPDATE SKIP LOCKED
beginAssignTasks(x) ==
    /\ tx[x] = NoTx
    /\ workerAvailable # {}
    /\ SkipLocked(QueuedIds, x) # {}
    /\ \E q \in Orders(workerAvailable) :
        /\ \A a, b \in 1..Len(q) :
              a < b => emps[q[a]].tasks_completed <= emps[q[b]].tasks_completed
        /\ LET free == SkipLocked(QueuedIds, x)
               n == IF Cardinality(free) < Len(q) THEN Cardinality(free) ELSE Len(q)
               ts == FirstOf(free, n)
           IN tx' = [tx EXCEPT ![x] =
                       [op |-> "assign", i |-> 0,
                        rows |-> [k \in 1..n |->
                                    [task |-> ts[k], emp |-> q[k], w |-> 0, v |-> 0]]]]
    /\ bus' = <<>>
    /\ UNCHANGED <<tasks, emps, cands, apps, incidents, clients, req, mon, wa, warn>>

\* checkTimeouts: BEGIN, the SELECT of the overdue tasks joined with their
\* employees' counters, FOR UPDATE OF t SKIP LOCKED
beginCheckTimeouts(x) ==
    /\ tx[x] = NoTx
    /\ LET free == SkipLocked(workerOverdue, x)
       IN /\ free # {}
          /\ Len(tasks) + Cardinality(workerOverdue) <= MaxTasks
          /\ Len(incidents) + Cardinality(workerOverdue) <= MaxIncidents
          /\ \E q \in Orders(free) :
                tx' = [tx EXCEPT ![x] =
                         [op |-> "timeout", i |-> 0,
                          rows |-> [k \in 1..Len(q) |->
                                      [task |-> q[k],
                                       emp |-> tasks[q[k]].assigned_to,
                                       w |-> emps[tasks[q[k]].assigned_to].warnings,
                                       v |-> emps[tasks[q[k]].assigned_to].violations]]]]
    /\ bus' = <<>>
    /\ UNCHANGED <<tasks, emps, cands, apps, incidents, clients, req, mon, wa, warn>>

\* One turn of either loop: UPDATE ats_tasks WHERE id (a row the transaction
\* has locked already), UPDATE employees WHERE id, which takes the employee's
\* row lock and waits while another transaction holds it, the INSERTs, and
\* redis.publish.
updateEmployee(x) ==
    /\ tx[x].op # "none"
    /\ tx[x].i < Len(tx[x].rows)
    /\ LET row == tx[x].rows[tx[x].i + 1]
       IN /\ \A y \in TxIds \ {x} : row.emp \notin lockedEmps(y)
          /\ bus' = <<Event(IF tx[x].op = "assign" THEN "task:assigned"
                            ELSE "task:timeout", row.task, row.emp)>>
    /\ tx' = [tx EXCEPT ![x].i = @ + 1]
    /\ UNCHANGED <<tasks, emps, cands, apps, incidents, clients, req, mon, wa, warn>>

\* COMMIT of assignTasks
commitAssignTasks(x) ==
    /\ tx[x].op = "assign"
    /\ tx[x].i = Len(tx[x].rows)
    /\ LET rows == tx[x].rows
       IN /\ tasks' = [t \in TaskIds |->
                        IF t \in lockedTasks(x)
                        THEN [tasks[t] EXCEPT
                                !.status = "assigned",
                                !.assigned_to =
                                    rows[CHOOSE k \in 1..Len(rows) : rows[k].task = t].emp,
                                !.assigned_at = "set", !.deadline = "future"]
                        ELSE tasks[t]]
          /\ emps' = [e \in Emps |->
                        IF e \in lockedEmps(x)
                        THEN [emps[e] EXCEPT !.status = "busy"]
                        ELSE emps[e]]
    /\ tx' = [tx EXCEPT ![x] = NoTx]
    /\ bus' = <<>>
    /\ UNCHANGED <<cands, apps, incidents, clients, req, mon, wa, warn>>

\* COMMIT of checkTimeouts
commitCheckTimeouts(x) ==
    /\ tx[x].op = "timeout"
    /\ tx[x].i = Len(tx[x].rows)
    /\ LET rows == tx[x].rows
           rowOf(e) == rows[CHOOSE k \in 1..Len(rows) :
                               /\ rows[k].emp = e
                               /\ \A j \in 1..Len(rows) : rows[j].emp = e => j <= k]
       IN /\ tasks' = [t \in TaskIds |->
                        IF t \in lockedTasks(x)
                        THEN [tasks[t] EXCEPT !.status = "timeout"]
                        ELSE tasks[t]]
                      \o [k \in 1..Len(rows) |->
                            NewTask(tasks[rows[k].task].candidate_id,
                                    tasks[rows[k].task].job_id,
                                    tasks[rows[k].task].ats_score, NULL)]
          /\ incidents' = incidents \o
                [k \in 1..Len(rows) |->
                   [employee_id |-> rows[k].emp,
                    type |-> workerIncidentType(rows[k].w),
                    task_id |-> rows[k].task]]
          /\ emps' = [e \in Emps |->
                        IF e \in lockedEmps(x)
                        THEN [emps[e] EXCEPT
                                !.warnings = workerNewWarnings(rowOf(e).w),
                                !.violations = workerNewViolations(rowOf(e).w,
                                                                   rowOf(e).v),
                                !.is_active = workerIsActive(rowOf(e).w, rowOf(e).v),
                                !.status = "available"]
                        ELSE emps[e]]
    /\ tx' = [tx EXCEPT ![x] = NoTx]
    /\ bus' = <<>>
    /\ UNCHANGED <<cands, apps, clients, req, mon, wa, warn>>

\* x's next UPDATE employees waits for a row lock that y holds
WaitsFor(x, y) ==
    /\ x # y
    /\ tx[x].op # "none"
    /\ tx[x].i < Len(tx[x].rows)
    /\ tx[x].rows[tx[x].i + 1].emp \in lockedEmps(y)

\* PostgreSQL's deadlock detector fails the waiting statement of one of the
\* transactions: catch (error), ROLLBACK, the error is logged
deadlockDetected(x) ==
    /\ \E y \in TxIds : WaitsFor(x, y) /\ WaitsFor(y, x)
    /\ tx' = [tx EXCEPT ![x] = NoTx]
    /\ bus' = <<>>
    /\ UNCHANGED <<tasks, emps, cands, apps, incidents, clients, req, mon, wa, warn>>

\* ------------------------------------------------------ specifications
Intake == \E c \in TaskCands, j \in Jobs, s \in Scores : queueTask(c, j, s)

GatewayTime == \E t \in 1..MaxTasks : dueAtPasses(t)

WorkerTime == \E t \in 1..MaxTasks : deadlinePasses(t)

GatewayAssigner == assignNextTask

GatewayMonitor == checkTimeouts \/ handleTimeout

WorkerService == assignTasksSelect \/ assignTasksCommit \/ workerCheckTimeouts

StartRoute ==
    \/ \E e \in Emps, t \in 1..MaxTasks : startCheck(e, t)
    \/ startUpdate

CompleteRoute ==
    \/ \E e \in Emps, t \in 1..MaxTasks, u \in Urls : completeCheck(e, t, u)
    \/ completeTask
    \/ completeCandidate
    \/ completeEmployee
    \/ completeApplication

FailRoute ==
    \/ \E e \in Emps, t \in 1..MaxTasks, r \in Reasons : failCheck(e, t, r)
    \/ failTask
    \/ failEmployee

TaskMessages == \E e \in Emps, t \in 1..MaxTasks : wsTaskStarted(e, t)

Session ==
    \/ \E e \in Emps : login(e)
    \/ \E e \in Emps : logout(e)
    \/ \E e \in Emps, s \in Presences : putPresenceCheck(e, s)
    \/ \E e \in Emps, s \in Presences : putPresenceUpdate(e, s)
    \/ \E e \in Emps : wsConnect(e)
    \/ \E e \in Emps : wsListen(e)
    \/ \E e \in Emps, s \in Presences : wsPresenceUpdate(e, s)
    \/ \E e \in Emps : HeartbeatAges(e)
    \/ \E e \in Emps : updateHeartbeat(e)
    \/ \E e \in Emps : handleDisconnect(e)

ManualWarning ==
    \/ \E e \in Emps : addWarningRead(e)
    \/ addWarningUpdate
    \/ addWarningIncident

\* The api-gateway alone: intake, assigner, timeout checker, the task routes
\* and the TASK_STARTED message, with reviewers logging in and out.
Next ==
    \/ Intake
    \/ GatewayTime
    \/ GatewayAssigner
    \/ GatewayMonitor
    \/ StartRoute
    \/ CompleteRoute
    \/ FailRoute
    \/ TaskMessages
    \/ respond
    \/ \E e \in Emps : login(e)
    \/ \E e \in Emps : logout(e)

Spec == Init /\ [][Next]_vars

\* The worker-service deployed beside the api-gateway on the same store.
NextWorker ==
    \/ Intake
    \/ GatewayTime
    \/ WorkerTime
    \/ GatewayAssigner
    \/ GatewayMonitor
    \/ WorkerService
    \/ CompleteRoute
    \/ respond
    \/ \E e \in Emps : login(e)

SpecWorker == Init /\ [][NextWorker]_vars

\* The ATS service's two outcomes, a queued task or an automatic application,
\* with the gateway's assigner, timeout checker and complete route.
AutoApply ==
    \E c \in TaskCands, j \in Jobs, s \in Scores : autoSubmitApplication(c, j, s)

NextApply ==
    \/ Intake
    \/ AutoApply
    \/ GatewayTime
    \/ GatewayAssigner
    \/ GatewayMonitor
    \/ CompleteRoute
    \/ respond

SpecApply == Init /\ [][NextApply]_vars

\* The pre-warning emitter of every api-gateway instance beside intake and
\* the assigner.
WarningEmitter ==
    \/ \E i \in Instances : checkWarnings(i)
    \/ \E i \in Instances : warnExists(i)
    \/ \E i \in Instances : warnSet(i)
    \/ \E i \in Instances : warnPublish(i)

NextWarn ==
    \/ Intake
    \/ GatewayAssigner
    \/ WarningEmitter

SpecWarn == Init /\ [][NextWarn]_vars

\* The gateway's assigner, timeout checker, complete and fail routes, with
\* the process killed and restarted at any point.
NextCrash ==
    \/ Intake
    \/ GatewayTime
    \/ GatewayAssigner
    \/ GatewayMonitor
    \/ CompleteRoute
    \/ FailRoute
    \/ respond
    \/ kill

SpecCrash == Init /\ [][NextCrash]_vars

\* Several timeout checkers: api-gateway instances whose sweeps overlap.
NextMonitors ==
    \/ Intake
    \/ GatewayTime
    \/ GatewayAssigner
    \/ GatewayMonitor
    \/ checkTimeoutsOverlap
    \/ \E e \in Emps : login(e)

SpecMonitors == Init /\ [][NextMonitors]_vars

\* The gateway with a store whose COMMIT may fail.
CommitFails == assignNextTaskAborted \/ handleTimeoutAborted

NextBus ==
    \/ Intake
    \/ GatewayTime
    \/ GatewayAssigner
    \/ GatewayMonitor
    \/ CommitFails
    \/ StartRoute
    \/ CompleteRoute
    \/ respond

SpecBus == Init /\ [][NextBus]_vars

\* The WebSocket server's sockets: connections, closes, the heartbeat check
\* and the clients' pongs, around the gateway's assigner and timeout checker.
Sockets ==
    \/ \E e \in Emps : wsConnect(e)
    \/ \E e \in Emps : wsListen(e)
    \/ \E e \in Emps : wsCloseUnheard(e)
    \/ \E e \in Emps : handleDisconnect(e)
    \/ heartbeatInterval
    \/ \E e \in Emps : pong(e)

NextSocket ==
    \/ Intake
    \/ GatewayTime
    \/ GatewayAssigner
    \/ GatewayMonitor
    \/ Sockets

SpecSocket == Init /\ [][NextSocket]_vars

\* setInterval(..., 30000) keeps firing
SpecHeartbeat == SpecSocket /\ WF_vars(heartbeatInterval)

\* The admin's counter resets beside the gateway's expiry path, the manual
\* warning and the complete route.
AdminReset ==
    \/ \E e \in Emps : resetWarnings(e)
    \/ \E e \in Emps : resetViolations(e)

NextAdmin ==
    \/ Intake
    \/ GatewayTime
    \/ GatewayAssigner
    \/ GatewayMonitor
    \/ CompleteRoute
    \/ ManualWarning
    \/ AdminReset
    \/ respond

SpecAdmin == Init /\ [][NextAdmin]_vars

\* The two expiry paths and the manual warning, from reviewers whose counters
\* are below every suspension threshold.
InitStrike == Init /\ emps["e1"].violations < 3

NextStrike ==
    \/ Intake
    \/ GatewayTime
    \/ WorkerTime
    \/ GatewayAssigner
    \/ GatewayMonitor
    \/ WorkerService
    \/ ManualWarning
    \/ respond
    \/ \E e \in Emps : login(e)

SpecStrike == InitStrike /\ [][NextStrike]_vars

\* Presence and sessions: login, logout, the presence route, the WebSocket
\* connection and its messages, and the admin's employee update, around the
\* gateway's assigner and timeout checker.
NextSession ==
    \/ Intake
    \/ GatewayTime
    \/ GatewayAssigner
    \/ GatewayMonitor
    \/ Session
    \/ respond
    \/ \E e \in Emps, s \in Presences : putEmployee(e, s)

SpecSession == InitOffline /\ [][NextSession]_vars

\* Dispatch order: the three queued tasks of the seed data wait for two
\* connected reviewers, e1 with as many or more completed tasks than e2; the
\* oldest task is new or has been requeued SeedRetries times already; both
\* assigners and both expiry paths run.
SeedTasks == <<NewTask("c1", "j1", 85, "u0"), NewTask("c2", "j1", 85, "u0"),
               NewTask("c1", "j1", 85, "u0")>>

InitQueue ==
    /\ \E r \in {0, SeedRetries} : tasks = [SeedTasks EXCEPT ![1].retry_count = r]
    /\ \E n \in 0..MaxCompleted, l \in Emps :
          emps = [e \in Emps |->
                    [status |-> "available", current_task_id |-> 0,
                     tasks_completed |-> IF e = "e1" THEN n ELSE 0,
                     warnings |-> 0, violations |-> 0,
                     is_active |-> TRUE, last_heartbeat |-> "fresh",
                     hb_latest |-> (e = l)]]
    /\ cands = [c \in Cands |-> "u0"]
    /\ apps = [k \in Cands \X Jobs |-> NoApp]
    /\ incidents = <<>>
    /\ clients = [e \in Emps |-> Socket]
    /\ req = NoReq
    /\ mon = <<>>
    /\ wa = <<>>
    /\ bus = <<>>
    /\ warn = NoWarn
    /\ tx = NoTxs

NextQueue ==
    \/ GatewayTime
    \/ WorkerTime
    \/ GatewayAssigner
    \/ GatewayMonitor
    \/ WorkerService

SpecQueue == InitQueue /\ [][NextQueue]_vars

\* Progress: the gateway's assigner and timeout checker tick on their
\* intervals, a handler in flight runs its next statement, and a reviewer
\* who holds a task eventually uploads the resume and completes it.
OwnerCompletes ==
    \E e \in Emps, t \in 1..MaxTasks, u \in Urls :
        t \in TaskIds /\ ownedActiveRows(e, t) /\ completeCheck(e, t, u)

NextLive ==
    \/ Intake
    \/ GatewayTime
    \/ GatewayAssigner
    \/ GatewayMonitor
    \/ StartRoute
    \/ CompleteRoute
    \/ respond

Fairness ==
    /\ WF_vars(assignNextTask)
    /\ WF_vars(checkTimeouts)
    /\ WF_vars(handleTimeout)
    /\ WF_vars(startUpdate)
    /\ WF_vars(completeTask)
    /\ WF_vars(completeCandidate)
    /\ WF_vars(completeEmployee)
    /\ WF_vars(completeApplication)
    /\ WF_vars(respond)
    /\ SF_vars(OwnerCompletes)

SpecLive == InitStrike /\ [][NextLive]_vars /\ Fairness

\* ------------------------------------------------------------- claims
\* C1 (single assignment): for every task in status assigned or in_progress,
\* every reviewer whose current_task_id is that task is the task's
\* assigned_to, so no active task is the current task of two reviewers.
C1_SingleAssignment ==
    \A t \in TaskIds :
        tasks[t].status \in Active =>
            \A e \in Emps : emps[e].current_task_id = t => tasks[t].assigned_to = e

\* C2 (busy reviewer has exactly one task): a reviewer whose presence is busy
\* has a current_task_id, and it names a task in status assigned or
\* in_progress whose assigned_to is that reviewer.
C2_BusyHasTask ==
    \A e \in Emps :
        emps[e].status = "busy" =>
            /\ emps[e].current_task_id \in TaskIds
            /\ tasks[emps[e].current_task_id].status \in Active
            /\ tasks[emps[e].current_task_id].assigned_to = e

\* The incidents a step inserts for an expired task (task_id is the task).
ExpiryIncidents ==
    {i \in (Len(incidents) + 1)..Len(incidents') : incidents'[i].task_id # 0}

\* C3 (strike state machine): an expiry for a reviewer with counters (w, v)
\* gives (w + 1, v) and a warning when w < 2, gives (0, v + 1) and a
\* violation when w = 2, and when the resulting violations equal 3 the
\* reviewer is made inactive and offline in the same transaction.
C3_StrikeMachine ==
    [][\A i \in ExpiryIncidents :
         LET r == incidents'[i].employee_id
             w == emps[r].warnings
             v == emps[r].violations
         IN /\ w < 2 => /\ emps'[r].warnings = w + 1
                         /\ emps'[r].violations = v
                         /\ incidents'[i].type = "warning"
            /\ w = 2 => /\ emps'[r].warnings = 0
                         /\ emps'[r].violations = v + 1
                         /\ incidents'[i].type \in {"violation", "suspension"}
            /\ emps'[r].violations = 3 => /\ ~emps'[r].is_active
                                           /\ emps'[r].status = "offline"]_vars

\* C4 (counter bounds): every reviewer has warnings in 0..2 and violations
\* in 0..3, and a reviewer with 3 violations is inactive and offline.
C4_CounterBounds ==
    \A e \in Emps :
        /\ emps[e].warnings \in 0..2
        /\ emps[e].violations \in 0..3
        /\ emps[e].violations = 3 => ~emps[e].is_active /\ emps[e].status = "offline"

\* What the strike machine's suspension leaves in the store: the gateway's
\* handleTimeout locks the account at MAX_VIOLATIONS, the worker-service
\* clears is_active.
Suspended(e) == ~emps[e].is_active \/ emps[e].violations >= MAX_VIOLATIONS

\* C5 (suspension is sticky): no operation other than an admin reset changes
\* the presence or the active flag of a suspended reviewer; login, connect,
\* presence updates and a late completion are rejected or leave both as
\* they are.
C5_SuspensionSticky ==
    [][\A e \in Emps :
         Suspended(e) => /\ emps'[e].status = emps[e].status
                         /\ emps'[e].is_active = emps[e].is_active]_vars

\* C6 (expiry requeues in place): expiring task T held by R leaves the same
\* row T queued with retry_count one higher and assigned_to, assigned_at,
\* the deadline and started_at cleared, clears R's current_task_id, and
\* inserts no task row.
C6_RequeueInPlace ==
    [][\A i \in ExpiryIncidents :
         LET t == incidents'[i].task_id
             r == incidents'[i].employee_id
         IN /\ Len(tasks') = Len(tasks)
            /\ tasks'[t].status = "queued"
            /\ tasks'[t].retry_count = tasks[t].retry_count + 1
            /\ tasks'[t].assigned_to = NULL
            /\ tasks'[t].assigned_at = NULL
            /\ tasks'[t].due_at = NULL
            /\ tasks'[t].deadline = NULL
            /\ tasks'[t].started_at = NULL
            /\ emps'[r].current_task_id = 0]_vars

\* C7 (completion effects): complete(T, newResumeUrl) by the owner sets T
\* completed with new_resume_url, adds one to the reviewer's
\* tasks_completed and clears their current_task_id, makes them available
\* only if they are still active, installs the resume on the candidate and
\* upserts the (candidate, job) application with it.
C7_CompletionEffects ==
    [][/\ \A t \in TaskIds :
            (tasks'[t].status = "completed" /\ tasks[t].status # "completed")
                => tasks'[t].new_resume_url = req.arg
       /\ \A e \in Emps :
            emps'[e].tasks_completed = emps[e].tasks_completed + 1
                => /\ emps'[e].current_task_id = 0
                   /\ cands[tasks[req.task].candidate_id] = req.arg
                   /\ emps'[e].status = "available" => ~Suspended(e)
                   /\ Suspended(e) => emps'[e].status = emps[e].status
       /\ \A k \in Cands \X Jobs :
            apps'[k] # apps[k] => apps'[k].resume_used_url = req.arg]_vars

\* The handler a step admits: a task route's ownership SELECT or the
\* TASK_STARTED message, issued by `req'.user` for `req'.task`.
Issued == req = NoReq /\ req'.op \in {"start", "complete", "fail", "ws_start"}

C9_StartOnlyFromAssigned ==
    [][\A t \in TaskIds :
         (tasks'[t].status = "in_progress" /\ tasks[t].status # "in_progress")
            => /\ tasks[t].status = "assigned"
               /\ tasks[t].assigned_to = req'.user]_vars

\* C10 (terminal states are final): once a task is completed or failed, no
\* step changes its status.
C10_TerminalFinal ==
    [][\A t \in TaskIds :
         tasks[t].status \in Terminal => tasks'[t].status = tasks[t].status]_vars

\* C11 (fail effects): the fail route's task statement resets the row to
\* queued, clears assigned_to, assigned_at, due_at and started_at, adds
\* exactly 1 to retry_count and appends the reason to notes; its employee
\* statement makes the caller available with no current task; neither adds
\* a warning, a violation or an incident.
C11_FailEffects ==
    [][(req.op = "fail" /\ req'.op = "fail" /\ req'.pc # req.pc)
         => LET t == req.task
                r == req.user
            IN /\ req.pc = "task" =>
                    /\ tasks'[t].status = "queued"
                    /\ tasks'[t].assigned_to = NULL
                    /\ tasks'[t].assigned_at = NULL
                    /\ tasks'[t].due_at = NULL
                    /\ tasks'[t].started_at = NULL
                    /\ tasks'[t].retry_count = tasks[t].retry_count + 1
                    /\ tasks'[t].notes = Append(tasks[t].notes, <<"FAILED", req.arg>>)
               /\ req.pc = "employee" =>
                    /\ emps'[r].status = "available"
                    /\ emps'[r].current_task_id = 0
               /\ \A e \in Emps : /\ emps'[e].warnings = emps[e].warnings
                                   /\ emps'[e].violations = emps[e].violations
               /\ incidents' = incidents]_vars

\* The fail route has answered 200 to the owner: the task is queued again
\* with the reason in its notes and the caller is available and free.
C11_Witness ==
    /\ req.op = "fail" /\ req.pc = "200"
    /\ tasks[req.task].status = "queued"
    /\ tasks[req.task].retry_count = 1
    /\ tasks[req.task].notes = <<(<<"FAILED", req.arg>>)>>
    /\ emps[req.user].status = "available"
    /\ emps[req.user].current_task_id = 0

\* C12 (assignment fields): every task in status assigned or in_progress has
\* an assigned_to, an assigned_at and the deadline its assigner wrote with
\* it, and the step that assigns a task leaves the chosen reviewer busy with
\* current_task_id naming that task.
C12_AssignmentFields ==
    [][/\ \A t \in 1..Len(tasks') :
            tasks'[t].status \in Active
                => /\ tasks'[t].assigned_to \in Emps
                   /\ tasks'[t].assigned_at # NULL
                   /\ tasks'[t].due_at # NULL \/ tasks'[t].deadline # NULL
       /\ \A t \in TaskIds :
            (tasks[t].status = "queued" /\ tasks'[t].status = "assigned")
                => /\ tasks'[t].assigned_to \in Emps
                   /\ emps'[tasks'[t].assigned_to].status = "busy"
                   /\ emps'[tasks'[t].assigned_to].current_task_id = t]_vars

\* C13 (FIFO dispatch): when a tick assigns a task no older task is left
\* queued, and a requeued task keeps its created_at position: the row an
\* expiry puts into the queue is the expired row itself (rows are kept in
\* created_at order).
C13_FifoDispatch ==
    [][/\ \A t \in TaskIds :
            (tasks[t].status = "queued" /\ tasks'[t].status = "assigned")
                => \A u \in 1..(t - 1) : tasks'[u].status # "queued"
       /\ \A i \in ExpiryIncidents :
            \A u \in 1..Len(tasks') :
                (/\ tasks'[u].status = "queued"
                 /\ u > Len(tasks) \/ tasks[u].status # "queued")
                    => u = incidents'[i].task_id]_vars

\* The step assigns queued task t.
Assigned(t) == tasks[t].status = "queued" /\ tasks'[t].status = "assigned"

\* C14 (fairness policy): the reviewer a tick gives a task to has the fewest
\* tasks_completed among the eligible reviewers, and among those with
\* equally few the oldest heartbeat.
C14_FairPick ==
    [][\A t \in TaskIds :
         Assigned(t) =>
            LET e == tasks'[t].assigned_to
            IN \A f \in Emps \ {e} :
                  (Eligible(f) /\ ~\E u \in TaskIds :
                                      Assigned(u) /\ tasks'[u].assigned_to = f)
                     => \/ emps[e].tasks_completed < emps[f].tasks_completed
                        \/ /\ emps[e].tasks_completed = emps[f].tasks_completed
                           /\ ~emps[e].hb_latest]_vars

\* C15 (eligibility): the reviewer a task is assigned to is, when the
\* assignment commits, available, active, without a current task, with a
\* live heartbeat and with fewer than 3 violations.
C15_EligibleAssignee ==
    [][\A t \in TaskIds :
         Assigned(t) =>
            LET e == tasks'[t].assigned_to
            IN /\ emps[e].status = "available"
               /\ emps[e].is_active
               /\ emps[e].current_task_id = 0
               /\ emps[e].last_heartbeat = "fresh"
               /\ emps[e].violations < 3]_vars

\* C16 (retry cap): no task with retry_count above MAX_RETRIES = 3 is in
\* status assigned or in_progress (the assigner marks it timeout instead of
\* assigning it again).
C16_RetryCap ==
    \A t \in TaskIds : tasks[t].status \in Active => tasks[t].retry_count <= 3

\* C17 (no lost task): every task ever enqueued eventually reaches a
\* terminal state (completed, failed or timeout); none stays forever in
\* queued, assigned or in_progress.
C17_NoLostTask ==
    \A t \in 1..MaxEnqueue :
        [](t \in TaskIds =>
              <>(t \in TaskIds /\ tasks[t].status \in {"completed", "failed", "timeout"}))

\* C18: across every step a reviewer's tasks_completed never decreases, a
\* task's retry_count never decreases, and a reviewer's warnings decreases only
\* in a step that raises that reviewer's violations by 1.
C18_TasksCompletedMonotone ==
    \A e \in Emps : emps'[e].tasks_completed >= emps[e].tasks_completed

C18_RetryCountMonotone ==
    \A t \in TaskIds :
        t \in DOMAIN tasks' => tasks'[t].retry_count >= tasks[t].retry_count

C18_WarningsOnlyPromoted ==
    \A e \in Emps :
        emps'[e].warnings < emps[e].warnings
            => emps'[e].violations = emps[e].violations + 1

C18_CounterMonotone ==
    [][/\ C18_TasksCompletedMonotone
       /\ C18_RetryCountMonotone
       /\ C18_WarningsOnlyPromoted]_vars

\* C19: no task in the store has an ats_score at or above the threshold:
\* enqueue inserts nothing for such a score.
C19_ThresholdSplit ==
    \A t \in TaskIds : tasks[t].ats_score < Threshold

\* C20: the step that ends a completion of a task for (candidate, job) leaves
\* the application row of that pair with the task's new_resume_url, the task's
\* ats_score and auto_submitted = FALSE, whether or not the pair had a row.
C20_ApplicationOnCompletion ==
    [][(req.op = "complete" /\ req.pc = "application" /\ req'.pc = "200")
          => LET t == req.task
                 k == <<tasks[t].candidate_id, tasks[t].job_id>>
             IN /\ apps'[k].resume_used_url = tasks[t].new_resume_url
                /\ apps'[k].ats_score_at_submission = tasks[t].ats_score
                /\ apps'[k].auto_submitted = FALSE]_vars

\* C21: no reviewer is available while holding a task: every path that sets
\* presence for a reviewer refuses 'available' while current_task_id is set.
C21_AvailableHasNoTask ==
    \A e \in Emps : emps[e].status = "available" => emps[e].current_task_id = 0

\* C22: the step in which reviewer e's WebSocket session connects sets e's
\* presence to available only if e is not suspended and has no current task;
\* otherwise it leaves e's presence as it was.
C22_ConnectPresence ==
    [][\A e \in Emps :
          (/\ e \in DOMAIN clients'
           /\ clients'[e] = NewSocket
           /\ e \in DOMAIN clients => ~clients[e].open)
              => emps'[e].status =
                     IF ~Suspended(e) /\ emps[e].current_task_id = 0
                     THEN "available" ELSE emps[e].status]_vars

\* C23: when reviewer e's session closes while e holds task T, the close sets
\* e offline and leaves T as it is; while e has no session, T keeps its
\* status and holder until its deadline has passed, and the only step that
\* changes them is the monitor's requeue of T with retry_count + 1 and an
\* incident for e, so T goes to no second reviewer before that requeue.
HasSession(e) == e \in DOMAIN clients /\ clients[e].open

C23_TaskKept ==
    \A e \in Emps, t \in TaskIds :
        (tasks[t].assigned_to = e /\ tasks[t].status \in Active)
            => /\ (HasSession(e) /\ ~HasSession(e)') => tasks'[t] = tasks[t]
               /\ (/\ ~HasSession(e)
                   /\ \/ tasks'[t].status # tasks[t].status
                      \/ tasks'[t].assigned_to # tasks[t].assigned_to)
                      => /\ tasks[t].due_at = "past"
                         /\ tasks'[t] = requeued(tasks[t])
                         /\ \E i \in ExpiryIncidents :
                                /\ incidents'[i].employee_id = e
                                /\ incidents'[i].task_id = t

C23_OfflineOnClose ==
    \A e \in Emps :
        (/\ HasSession(e) /\ ~HasSession(e)'
         /\ \E t \in TaskIds : tasks[t].assigned_to = e /\ tasks[t].status \in Active)
            => emps'[e].status = "offline"

C23_DropMidTask == [][C23_OfflineOnClose /\ C23_TaskKept]_vars

\* C24: the heartbeat check closes no socket whose client has answered the
\* latest ping, and a socket whose client has not answered is eventually
\* answered or closed with the reviewer's presence set to offline.
C24_AnsweringStaysOpen ==
    heartbeatInterval
        => \A e \in DOMAIN clients :
               (clients[e].open /\ clients[e].answered) => e \in DOMAIN clients'

C24_HeartbeatMiss ==
    /\ [][C24_AnsweringStaysOpen]_vars
    /\ \A e \in Emps :
          (e \in DOMAIN clients /\ clients[e].open /\ ~clients[e].answered)
              ~> \/ e \in DOMAIN clients /\ clients[e].open /\ clients[e].answered
                 \/ e \notin DOMAIN clients /\ emps[e].status = "offline"

\* C25: every event a step publishes reports a transition that the same step
\* committed to the store: an assignment, an expiry with its incident, a start
\* or a completion; a transaction that does not commit publishes nothing.
C25_EventsAfterCommit ==
    [][\A n \in 1..Len(bus') :
          LET ev == bus'[n]
              t == ev.taskId
          IN /\ ev.type = "TASK_ASSIGNED"
                    => /\ tasks[t].status = "queued"
                       /\ tasks'[t].status = "assigned"
                       /\ tasks'[t].assigned_to = ev.employeeId
             /\ ev.type \in {"WARNING_ADDED", "VIOLATION_ADDED"}
                    => \E i \in ExpiryIncidents :
                          /\ incidents'[i].task_id = t
                          /\ incidents'[i].employee_id = ev.employeeId
             /\ ev.type = "TASK_STARTED" => tasks'[t].status = "in_progress"
             /\ ev.type = "TASK_COMPLETED" => tasks'[t].status = "completed"]_vars

\* C26: for each task and each minute mark at most one TASK_WARNING is
\* published during an assignment of the task, however many sweeps or
\* instances run checkWarnings at once.
C26_WarningOnce ==
    \A k \in DOMAIN warn.sent : warn.sent[k] <= 1

\* C27: killing the process between two writes of a complete or a fail
\* leaves no task completed or queued while the reviewer of that operation is
\* still busy with current_task_id pointing at it.
C27_IdempotentRestart ==
    [][(/\ req.op \in {"complete", "fail"}
        /\ req.pc \notin {"200", "400", "404"}
        /\ req' = NoReq)
          => ~(/\ emps'[req.user].status = "busy"
               /\ emps'[req.user].current_task_id = req.task
               /\ tasks'[req.task].status \in {"completed", "queued"})]_vars

\* C28: with several monitors or overlapping sweeps every expired assignment
\* is processed once: a step raises a task's retry_count or writes an expiry
\* incident for it only while the task is assigned or in progress, and then
\* by exactly 1 and with exactly one incident.
C28_OneStrikePerExpiry ==
    [][\A t \in TaskIds :
          LET written == {i \in ExpiryIncidents : incidents'[i].task_id = t}
          IN (tasks'[t].retry_count # tasks[t].retry_count \/ written # {})
                => /\ tasks[t].status \in Active
                   /\ tasks'[t].retry_count = tasks[t].retry_count + 1
                   /\ Cardinality(written) = 1]_vars

\* C29: the monitor requeues a task and strikes a reviewer only if, when its
\* transaction commits, the task is still assigned or in progress, past its
\* deadline and held by that reviewer; a task completed, failed or reassigned
\* since the scan is left alone and that reviewer gets no strike.
C29_ExpiryOnCurrentState ==
    [][\A i \in ExpiryIncidents :
          LET t == incidents'[i].task_id
              r == incidents'[i].employee_id
          IN /\ tasks[t].status \in Active
             /\ tasks[t].due_at = "past"
             /\ tasks[t].assigned_to = r]_vars

\* C30: a completion takes effect only if, when its writes are applied, the
\* task is still assigned or in progress and owned by the caller: a task
\* becomes completed only from such a state, and a reviewer's tasks_completed
\* grows (with current_task_id cleared and presence set available) only while
\* that reviewer still holds the task being completed.
C30_CompletionAtomic ==
    [][/\ \A t \in TaskIds :
             (tasks'[t].status = "completed" /\ tasks[t].status # "completed")
                => /\ req.op = "complete" /\ req.task = t
                   /\ ownedActiveRows(req.user, t)
       /\ \A e \in Emps :
             emps'[e].tasks_completed > emps[e].tasks_completed
                => /\ req.op = "complete" /\ req.user = e
                   /\ tasks[req.task].assigned_to = e
                   /\ emps[e].current_task_id = req.task]_vars

\* C31: every reviewer holds at most one task that is assigned or in
\* progress, whatever the interleaving of the two assigners, completions,
\* failures, expiries and presence changes.
ActiveOf(e) == {t \in TaskIds : tasks[t].status \in Active /\ tasks[t].assigned_to = e}

C31_OneActivePerReviewer == \A e \in Emps : Cardinality(ActiveOf(e)) <= 1

\* A step that applies a strike to reviewer e: an expiry's transaction, or
\* the UPDATE of a manual addWarning.
StrikeApplied(e) ==
    \/ \E i \in ExpiryIncidents : incidents'[i].employee_id = e
    \/ /\ req.op = "addWarning" /\ req.pc = "update" /\ req.user = e
       /\ req'.pc = "incident"

\* C32: no lost strike.  Counter updates of one reviewer are serialized: every
\* strike-applying step leaves the strike machine's result for the counters
\* the row holds at that moment, never a result computed from counters read
\* before another strike was applied, so two overlapping strikes add up.
C32_NoLostStrike ==
    [][\A e \in Emps :
          StrikeApplied(e)
             => /\ emps'[e].warnings = newWarnings(emps[e].warnings)
                /\ emps'[e].violations
                      = newViolations(emps[e].warnings, emps[e].violations)]_vars

\* The worker-service's transactions with their row locks, from a queue of
\* two to four tasks and two available reviewers; two transactions may be
\* open at a time (ticks that overlap, or two replicas).
LockSeed == SeedTasks \o <<NewTask("c2", "j1", 85, "u0")>>

InitLocks ==
    /\ \E n \in 2..Len(LockSeed) : tasks = SubSeq(LockSeed, 1, n)
    /\ \E n \in 0..MaxCompleted, l \in Emps :
          emps = [e \in Emps |->
                    [status |-> "available", current_task_id |-> 0,
                     tasks_completed |-> IF e = "e1" THEN n ELSE 0,
                     warnings |-> 0, violations |-> 0,
                     is_active |-> TRUE, last_heartbeat |-> "fresh",
                     hb_latest |-> (e = l)]]
    /\ cands = [c \in Cands |-> "u0"]
    /\ apps = [k \in Cands \X Jobs |-> NoApp]
    /\ incidents = <<>>
    /\ clients = [e \in Emps |-> Socket]
    /\ req = NoReq
    /\ mon = <<>>
    /\ wa = <<>>
    /\ bus = <<>>
    /\ warn = NoWarn
    /\ tx = NoTxs

NextLocks ==
    \/ WorkerTime
    \/ \E x \in TxIds : beginAssignTasks(x)
    \/ \E x \in TxIds : beginCheckTimeouts(x)
    \/ \E x \in TxIds : updateEmployee(x)
    \/ \E x \in TxIds : commitAssignTasks(x)
    \/ \E x \in TxIds : commitCheckTimeouts(x)
    \/ \E x \in TxIds : deadlockDetected(x)

SpecLocks == InitLocks /\ [][NextLocks]_vars

NextAbort ==
    \/ GatewayTime
    \/ GatewayAssigner
    \/ GatewayMonitor
    \/ assignNextTaskAborted
    \/ assignTasksSelect
    \/ assignTasksCommit
    \/ assignTasksAborted

SpecAbort == InitQueue /\ [][NextAbort]_vars

AssignedNow(t) == tasks'[t].status = "assigned" /\ tasks[t].status # "assigned"
BusyNow(e) == emps'[e].status = "busy" /\ emps[e].status # "busy"
AssignEvents ==
    {k \in 1..Len(bus') : bus'[k].type \in {"TASK_ASSIGNED", "task:assigned"}}

\* C34: an assigner tick that aborts is a no-op.  From a state with no queued
\* task, or with no eligible reviewer for any tick, no step assigns a task,
\* makes a reviewer busy or publishes an assignment event.  A tick assigns the
\* task and makes its reviewer busy together or does neither: a tick whose
\* transaction failed has changed no task row and no reviewer row.
C34_AbortIsNoOp ==
    [][/\ \A t \in TaskIds :
             AssignedNow(t) => /\ tasks[t].status = "queued"
                               /\ emps'[tasks'[t].assigned_to].status = "busy"
       /\ \A e \in Emps :
             BusyNow(e) => \E t \in TaskIds : AssignedNow(t) /\ tasks'[t].assigned_to = e
       /\ \A k \in AssignEvents :
             \/ /\ AssignedNow(bus'[k].taskId)
                /\ tasks'[bus'[k].taskId].assigned_to = bus'[k].employeeId
             \/ tasks' = tasks /\ emps' = emps
       /\ (QueuedIds = {} \/ (BestEligible = {} /\ wa = <<>>))
             => /\ \A t \in TaskIds : ~AssignedNow(t)
                /\ \A e \in Emps : ~BusyNow(e)
                /\ AssignEvents = {}]_vars

\* a tick's transaction has failed: its event is out, the task is still
\* queued and the reviewer still available without a task
C34_Witness ==
    /\ bus # <<>>
    /\ bus[1].type \in {"TASK_ASSIGNED", "task:assigned"}
    /\ tasks[bus[1].taskId].status = "queued"
    /\ emps[bus[1].employeeId].status = "available"
    /\ emps[bus[1].employeeId].current_task_id = 0

\* C35: every expiry appends exactly one incident, for the reviewer who held
\* the task and for the expired task, whose kind is the strike machine's
\* outcome: suspension when the strike suspends the reviewer, violation when
\* it raises violations, warning otherwise; no step modifies or removes an
\* incident that exists.
C35_IncidentPerExpiry ==
    [][/\ Len(incidents') >= Len(incidents)
       /\ SubSeq(incidents', 1, Len(incidents)) = incidents
       /\ \A i \in ExpiryIncidents :
             LET t == incidents'[i].task_id
                 r == incidents'[i].employee_id
             IN /\ r = tasks[t].assigned_to
                /\ Cardinality({j \in ExpiryIncidents : incidents'[j].task_id = t}) = 1
                /\ incidents'[i].type =
                      IF ~emps'[r].is_active \/ emps'[r].violations >= MAX_VIOLATIONS
                      THEN "suspension"
                      ELSE IF emps'[r].violations > emps[r].violations
                           THEN "violation" ELSE "warning"]_vars

\* The gateway's assigner and timeout checker with a Redis whose publish may
\* fail.
PublishFails == assignNextTaskPublishFails \/ handleTimeoutPublishFails

NextPublish ==
    \/ Intake
    \/ GatewayTime
    \/ GatewayAssigner
    \/ GatewayMonitor
    \/ PublishFails
    \/ \E e \in Emps : login(e)

SpecPublish == Init /\ [][NextPublish]_vars

\* C36: a publish failure neither blocks nor undoes a store transition.  When
\* the publish of an assignment's event fails the task is assigned and its
\* reviewer busy with it all the same; when the publish of an expiry's event
\* fails the task is requeued with retry_count + 1 and the incident is
\* written all the same.
C36_PublishFailureKeepsCommit ==
    [][\A k \in 1..Len(bus') :
          bus'[k].type = "error" =>
             LET t == bus'[k].taskId
                 e == bus'[k].employeeId
             IN IF bus'[k].event = "TASK_ASSIGNED"
                THEN /\ tasks'[t].status = "assigned"
                     /\ tasks'[t].assigned_to = e
                     /\ emps'[e].status = "busy"
                     /\ emps'[e].current_task_id = t
                ELSE /\ tasks'[t].status = "queued"
                     /\ tasks'[t].retry_count = tasks[t].retry_count + 1
                     /\ \E i \in ExpiryIncidents :
                           /\ incidents'[i].task_id = t
                           /\ incidents'[i].employee_id = e]_vars

\* C37: after an expiry a reviewer who is not suspended has no current task,
\* and is available only if they were connected: a reviewer whose session had
\* closed while they held the task (presence offline) stays offline.
C37_ExpiryPresence ==
    [][\A i \in ExpiryIncidents :
          LET r == incidents'[i].employee_id
          IN (emps'[r].is_active /\ emps'[r].violations < MAX_VIOLATIONS)
                => /\ emps'[r].current_task_id = 0
                   /\ emps'[r].status =
                         IF emps[r].status = "offline" THEN "offline" ELSE "available"]_vars

\* Reviewers who open a second session while their first is still open,
\* beside the gateway's assigner.
NextReconnect ==
    \/ Intake
    \/ GatewayAssigner
    \/ \E e \in Emps : wsConnect(e)
    \/ \E e \in Emps : wsConnectAgain(e)
    \/ \E e \in Emps : wsListen(e)
    \/ \E e \in Emps : handleDisconnect(e)
    \/ \E e \in Emps : handleDisconnectOlder(e)

SpecReconnect == Init /\ [][NextReconnect]_vars

\* C38: one logical session per reviewer.  When the older session of a
\* reviewer ends while their new session is live, the new session stays in
\* the client registry and the reviewer's presence is not set to offline.
C38_OneSession ==
    [][\A e \in Emps :
          (/\ e \in DOMAIN clients /\ clients[e].open /\ clients[e].older
           /\ e \in DOMAIN clients' /\ clients'[e].open /\ ~clients'[e].older)
             => /\ clients'[e].registered
                /\ emps'[e].status # "offline"]_vars

====
